---------------------------- MODULE Spec2Model ----------------------------
(***************************************************************************)
(* The mesh fragmentation engine of bevy-asteroids: split_mesh.rs and the  *)
(* geometry primitives of mesh_utils.rs.                                   *)
(*                                                                         *)
(* Numbers.  The code computes in f32.  The model computes in exact        *)
(* rationals <<numerator, denominator>> (denominator > 0, lowest terms),   *)
(* i.e. it is the code with rounding removed.  A Vec2 is a pair <<x, y>>   *)
(* of rationals.                                                           *)
(*                                                                         *)
(* Meshes.  A mesh is [vertices, indices]: the ATTRIBUTE_POSITION list     *)
(* (z is always 0 and is dropped) and the flat index list.  Indices are    *)
(* 0-based as in the code; TLA+ sequences are 1-based, so vertex i of the  *)
(* code is vertices[i + 1].                                                *)
(***************************************************************************)
EXTENDS Integers, Sequences, FiniteSets, TLC

-----------------------------------------------------------------------------
(* Exact rational arithmetic (stands for f32 arithmetic without rounding). *)

Abs(n) == IF n < 0 THEN -n ELSE n

RECURSIVE GCD(_, _)
GCD(a, b) == IF b = 0 THEN a ELSE GCD(b, a % b)

Rat(n, d) ==
    LET g == GCD(Abs(n), Abs(d))
        s == IF d < 0 THEN -1 ELSE 1
    IN  <<(s * n) \div g, (s * d) \div g>>

R(n) == <<n, 1>>
RZero == <<0, 1>>
RHalf == <<1, 2>>
\* Common factors are divided out before multiplying, to keep the integers small.
RAdd(a, b) ==
    LET g == GCD(a[2], b[2])
    IN  Rat(a[1] * (b[2] \div g) + b[1] * (a[2] \div g), (a[2] \div g) * b[2])
RMul(a, b) ==
    LET g1 == GCD(Abs(a[1]), b[2])
        g2 == GCD(Abs(b[1]), a[2])
    IN  <<(a[1] \div g1) * (b[1] \div g2), (a[2] \div g2) * (b[2] \div g1)>>
RDiv(a, b) == RMul(a, Rat(b[2], b[1]))
RNeg(a) == <<-a[1], a[2]>>
RAbs(a) == <<Abs(a[1]), a[2]>>
RSub(a, b) == RAdd(a, RNeg(b))
RLe(a, b) ==
    LET g == GCD(a[2], b[2])
    IN  a[1] * (b[2] \div g) <= b[1] * (a[2] \div g)
RLt(a, b) == RLe(a, b) /\ a # b
RMin(a, b) == IF RLe(a, b) THEN a ELSE b
RMax(a, b) == IF RLe(a, b) THEN b ELSE a

(* glam Vec2 *)
V(x, y) == <<R(x), R(y)>>
VZero == <<RZero, RZero>>
VAdd(p, q) == <<RAdd(p[1], q[1]), RAdd(p[2], q[2])>>
VSub(p, q) == <<RSub(p[1], q[1]), RSub(p[2], q[2])>>
VScale(t, p) == <<RMul(t, p[1]), RMul(t, p[2])>>
VDot(p, q) == RAdd(RMul(p[1], q[1]), RMul(p[2], q[2]))
\* Vec2::abs_diff_eq(rhs, max_abs_diff): both coordinates differ by at most it
AbsDiffEq(p, q, tol) ==
    /\ RLe(RAbs(RSub(p[1], q[1])), tol)
    /\ RLe(RAbs(RSub(p[2], q[2])), tol)

-----------------------------------------------------------------------------
(* mesh_utils.rs *)

\* distance_to_plane: plane.normal . (point - plane_point).  The model keeps
\* the normal un-normalised (no square root): the result is the code's
\* distance times |normal| > 0, and the code uses only its sign and the
\* ratio of two such values.
distance_to_plane(point, normal, plane_point) ==
    VDot(normal, VSub(point, plane_point))

\* Fault variant of get_intersection_points_2d: t without the negation of the
\* distance of v0, which puts the point on the far side of v0.
get_intersection_points_2d_unnegated(normal, vertices, vertex_index, opposite_vertices, plane_point) ==
    LET v0 == vertices[vertex_index + 1]
        Point(index) ==
            LET v1 == vertices[index + 1]
                direction == VSub(v1, v0)
                t == RDiv(distance_to_plane(v0, normal, plane_point),
                          VDot(normal, direction))
            IN  VAdd(v0, VScale(t, direction))
    IN  [k \in 1..Len(opposite_vertices) |-> Point(opposite_vertices[k])]

\* Fault variant of get_intersection_points_2d: the points come in the reverse
\* order of the opposite vertices.
get_intersection_points_2d_reversed(normal, vertices, vertex_index, opposite_vertices, plane_point) ==
    LET v0 == vertices[vertex_index + 1]
        Point(index) ==
            LET v1 == vertices[index + 1]
                direction == VSub(v1, v0)
                t == RDiv(RNeg(distance_to_plane(v0, normal, plane_point)),
                          VDot(normal, direction))
            IN  VAdd(v0, VScale(t, direction))
    IN  [k \in 1..Len(opposite_vertices) |->
            Point(opposite_vertices[Len(opposite_vertices) + 1 - k])]

\* get_intersection_points_2d: one point per opposite vertex, in order.
\* The divisor normal . (v1 - v0) is the difference of the two distances; it
\* is not zero when v0 and v1 are classified differently, which is the only
\* way split_mesh calls this.
get_intersection_points_2d(normal, vertices, vertex_index, opposite_vertices, plane_point) ==
    LET v0 == vertices[vertex_index + 1]
        Point(index) ==
            LET v1 == vertices[index + 1]
                direction == VSub(v1, v0)
                t == RDiv(RNeg(distance_to_plane(v0, normal, plane_point)),
                          VDot(normal, direction))
            IN  VAdd(v0, VScale(t, direction))
    IN  [k \in 1..Len(opposite_vertices) |-> Point(opposite_vertices[k])]

\* cross_product_z of is_ccw_winded
CrossZ(vertices, indices) ==
    LET v1 == vertices[indices[1] + 1]
        v2 == vertices[indices[2] + 1]
        v3 == vertices[indices[3] + 1]
        a == VSub(v2, v1)
        b == VSub(v3, v1)
    IN  RSub(RMul(a[1], b[2]), RMul(a[2], b[1]))

\* Fault variant of is_ccw_winded: cross_product_z > 0.0
is_ccw_winded_strict(vertices, indices) == RLt(RZero, CrossZ(vertices, indices))

is_ccw_winded(vertices, indices) == RLe(RZero, CrossZ(vertices, indices))

\* Fault variant of ensure_ccw: the swap is made whatever the winding.
ensure_ccw_always_swap(vertices, indices) == <<indices[1], indices[3], indices[2]>>

ensure_ccw(vertices, indices) ==
    IF ~is_ccw_winded(vertices, indices)
    THEN <<indices[1], indices[3], indices[2]>>
    ELSE indices

\* one term of calculate_area's sum
TriangleArea(v0, v1, v2) ==
    RMul(RHalf,
         RAbs(RAdd(RAdd(RMul(v0[1], RSub(v1[2], v2[2])),
                        RMul(v1[1], RSub(v2[2], v0[2]))),
                   RMul(v2[1], RSub(v0[2], v1[2])))))

RECURSIVE AreaFrom(_, _, _)
AreaFrom(vertices, indices, k) ==
    IF 3 * k > Len(indices) THEN RZero
    ELSE RAdd(TriangleArea(vertices[indices[3 * k - 2] + 1],
                           vertices[indices[3 * k - 1] + 1],
                           vertices[indices[3 * k] + 1]),
              AreaFrom(vertices, indices, k + 1))

\* calculate_area / calculate_mesh_area (index count a multiple of 3)
calculate_mesh_area(mesh) == AreaFrom(mesh.vertices, mesh.indices, 1)

-----------------------------------------------------------------------------
(* split_mesh.rs: mesh cleanup *)

Mesh(vertices, indices) == [vertices |-> vertices, indices |-> indices]

RECURSIVE Flatten(_)
Flatten(triples) ==
    IF triples = <<>> THEN <<>> ELSE Head(triples) \o Flatten(Tail(triples))

U16 == 65536

\* create_mesh_2d: positions [x, y, 0] and Indices::U16 of the flattened
\* triples, each index converted with `as u16`.
create_mesh_2d(vertices, indices) ==
    LET flat == Flatten(indices)
    IN  Mesh(vertices, [k \in 1..Len(flat) |-> flat[k] % U16])

UsedVertices(indices) ==
    {indices[t][c] : t \in 1..Len(indices), c \in 1..3}

\* remove_unused_vertices: retain the used vertices, in order, and remap the
\* triples through old_to_new.  Returns <<vertices, indices>>.
remove_unused_vertices(vertices, indices) ==
    LET used == UsedVertices(indices)
        \* old_to_new[i]: the number of used vertices before old index i
        old_to_new(i) == Cardinality({j \in used : j < i})
        kept == SelectSeq([k \in 1..Len(vertices) |-> k - 1], LAMBDA i : i \in used)
    IN  << [k \in 1..Len(kept) |-> vertices[kept[k] + 1]],
           [t \in 1..Len(indices) |->
               <<old_to_new(indices[t][1]), old_to_new(indices[t][2]),
                 old_to_new(indices[t][3])>>] >>

MERGE_TOLERANCE == RHalf

\* Fault variant of Position: no vertex is ever found, so nothing is welded.
Position_never(unique_vertices, vertex) == -1

\* Fault variant of Position: only the vertex kept last is compared.
Position_last_only(unique_vertices, vertex) ==
    IF unique_vertices # <<>>
          /\ AbsDiffEq(unique_vertices[Len(unique_vertices)], vertex, RHalf)
    THEN Len(unique_vertices) - 1
    ELSE -1

\* .position(|v| v.abs_diff_eq(vertex, 0.5)): 0-based index of the first match,
\* or -1 for None
Position(unique_vertices, vertex) ==
    LET hits == {k \in 1..Len(unique_vertices) :
                    AbsDiffEq(unique_vertices[k], vertex, MERGE_TOLERANCE)}
    IN  IF hits = {} THEN -1
        ELSE (CHOOSE k \in hits : \A m \in hits : k <= m) - 1

\* the first loop of merge_vertices: <<unique_vertices, new_indices>>
RECURSIVE MergeScan(_, _, _, _)
MergeScan(vertices, index, unique_vertices, new_indices) ==
    IF index > Len(vertices) THEN <<unique_vertices, new_indices>>
    ELSE LET existing_index == Position(unique_vertices, vertices[index])
         IN  IF existing_index >= 0
             THEN MergeScan(vertices, index + 1, unique_vertices,
                            Append(new_indices, existing_index))
             ELSE MergeScan(vertices, index + 1,
                            Append(unique_vertices, vertices[index]),
                            Append(new_indices, Len(unique_vertices)))

\* the filter of merge_vertices: a triple is dropped only when all three of
\* its new indices are the same
SameIndex(new_index) == new_index[1] = new_index[2] /\ new_index[2] = new_index[3]

\* Fault variant of MergeRemap: the triples keep the indices they had before
\* the welding.
MergeRemap_unmapped(unique_vertices, new_indices, indices) ==
    <<unique_vertices, indices>>

\* the second loop of merge_vertices: the triples remapped through new_indices
\* and filtered
MergeRemap(unique_vertices, new_indices, indices) ==
    << unique_vertices,
       SelectSeq([t \in 1..Len(indices) |->
                     <<new_indices[indices[t][1] + 1], new_indices[indices[t][2] + 1],
                       new_indices[indices[t][3] + 1]>>],
                 LAMBDA new_index : ~SameIndex(new_index)) >>

MergeWith(scan, indices) == MergeRemap(scan[1], scan[2], indices)

\* merge_vertices: returns <<vertices, indices>>
merge_vertices(vertices, indices) ==
    MergeWith(MergeScan(vertices, 1, <<>>, <<>>), indices)

RECURSIVE FoldMin(_, _, _)
FoldMin(vertices, c, k) ==
    IF k = Len(vertices) THEN vertices[k][c]
    ELSE RMin(vertices[k][c], FoldMin(vertices, c, k + 1))

RECURSIVE FoldMax(_, _, _)
FoldMax(vertices, c, k) ==
    IF k = Len(vertices) THEN vertices[k][c]
    ELSE RMax(vertices[k][c], FoldMax(vertices, c, k + 1))

\* Fault variant of vertices_center: the first vertex instead of the center of
\* the bounding box.
vertices_center_first_vertex(vertices) == vertices[1]

\* vertices_center: (min + max) / 2 of the bounding box (vertices not empty)
vertices_center(vertices) ==
    << RMul(RHalf, RAdd(FoldMin(vertices, 1, 1), FoldMax(vertices, 1, 1))),
       RMul(RHalf, RAdd(FoldMin(vertices, 2, 1), FoldMax(vertices, 2, 1))) >>

\* Fault variant of recenter_mesh: the vertices are moved but the offset
\* returned is zero.
recenter_mesh_zero_offset(vertices) ==
    <<[k \in 1..Len(vertices) |-> VSub(vertices[k], vertices_center(vertices))], VZero>>

\* recenter_mesh: returns <<vertices, center>>
recenter_mesh(vertices) ==
    LET center == vertices_center(vertices)
    IN  <<[k \in 1..Len(vertices) |-> VSub(vertices[k], center)], center>>

\* valid_mesh (mesh_utils.rs; its body is not among the sources): at least one
\* vertex, at least one triangle, an index count divisible by 3, and not all
\* indices identical.
valid_mesh(mesh) ==
    /\ Len(mesh.vertices) >= 1
    /\ Len(mesh.indices) >= 3
    /\ Len(mesh.indices) % 3 = 0
    /\ \E k \in 1..Len(mesh.indices) : mesh.indices[k] # mesh.indices[1]

-----------------------------------------------------------------------------
(* split_mesh.rs: split_triangle and split_mesh *)

\* One side's scratch buffers: the triples pushed so far and the vertex list.
Side(indices, vertex) == [indices |-> indices, vertex |-> vertex]

\* Fault variant of PushSingle: new_indices_a is pushed as built, without
\* ensure_ccw.
PushSingle_as_built(side_a, indices_a, side_a_vertex) ==
    Side(Append(indices_a,
                <<side_a, Len(side_a_vertex) - 2, Len(side_a_vertex) - 1>>),
         side_a_vertex)

\* split_triangle, the part for the side of the single vertex: 1 triangle that
\* connects the intersection points with the vertex side_a
PushSingle(side_a, indices_a, side_a_vertex) ==
    Side(Append(indices_a,
                ensure_ccw(side_a_vertex,
                           <<side_a, Len(side_a_vertex) - 2, Len(side_a_vertex) - 1>>)),
         side_a_vertex)

\* Fault variant of PushPair: only new_indices_b1 is pushed.
PushPair_one_triangle(side_b, indices_b, side_b_vertex) ==
    Side(Append(indices_b,
                ensure_ccw(side_b_vertex,
                           <<side_b[1], Len(side_b_vertex) - 1,
                             Len(side_b_vertex) - 2>>)),
         side_b_vertex)

\* split_triangle, the part for the side of the two vertices: 2 triangles
\* new_indices_b1 and new_indices_b2 (intersect_1_vertex_index is
\* Len - 2, intersect_2_vertex_index is Len - 1)
PushPair(side_b, indices_b, side_b_vertex) ==
    Side(Append(Append(indices_b,
                       ensure_ccw(side_b_vertex,
                                  <<side_b[1], Len(side_b_vertex) - 1,
                                    Len(side_b_vertex) - 2>>)),
                ensure_ccw(side_b_vertex,
                           <<side_b[2], Len(side_b_vertex) - 1, side_b[1]>>)),
         side_b_vertex)

PushTriangles(side_a, side_b, target_a, target_b, intersections) ==
    << PushSingle(side_a, target_a.indices, target_a.vertex \o intersections),
       PushPair(side_b, target_b.indices, target_b.vertex \o intersections) >>

\* split_triangle: target_a is the side of the single vertex side_a, target_b the
\* side of the two vertices side_b.  Returns the two targets as changed.
split_triangle(normal, plane_point, vertices, side_a, side_b, target_a, target_b) ==
    PushTriangles(side_a, side_b, target_a, target_b,
                  get_intersection_points_2d(normal, vertices, side_a, side_b,
                                             plane_point))

\* the absent value of Option<(Mesh, Vec2)>
None == [some |-> FALSE, mesh |-> Mesh(<<>>, <<>>), offset |-> VZero]
Some(mesh, offset) == [some |-> TRUE, mesh |-> mesh, offset |-> offset]

\* impact_normal of split_mesh, before .normalize()
ImpactNormal(split_plane_direction) ==
    <<RNeg(split_plane_direction[2]), split_plane_direction[1]>>

\* Fault variant of Classify: distance_to_plane(vertex i) >= 0.0
Classify_on_line_is_a(vertices, normal, plane_point) ==
    [k \in 1..Len(vertices) |->
        RLe(RZero, distance_to_plane(vertices[k], normal, plane_point))]

\* vertex_classifications[i]: distance_to_plane(vertex i) > 0.0
Classify(vertices, normal, plane_point) ==
    [k \in 1..Len(vertices) |->
        RLt(RZero, distance_to_plane(vertices[k], normal, plane_point))]

\* chunk k of indices.iter().chunks(3)
Chunk(indices, k) ==
    SubSeq(indices, 3 * k - 2, IF 3 * k <= Len(indices) THEN 3 * k ELSE Len(indices))

ToSingleA(acc, t) == [acc EXCEPT !.a = t[1], !.b = t[2]]
ToSingleB(acc, t) == [acc EXCEPT !.b = t[1], !.a = t[2]]

\* the match on (side_a.len(), side_b.len()) for one chunk.  acc = [a, b,
\* panicked]: the two sides' buffers and whether
\* `panic!("Invalid split configuration")` was reached.
MatchChunk(normal, plane_point, vertices, side_a, side_b, acc) ==
    CASE Len(side_a) = 3 /\ Len(side_b) = 0 ->
           [acc EXCEPT !.a.indices = Append(@, side_a)]
      [] Len(side_a) = 0 /\ Len(side_b) = 3 ->
           [acc EXCEPT !.b.indices = Append(@, side_b)]
      [] Len(side_a) = 1 /\ Len(side_b) = 2 ->
           ToSingleA(acc, split_triangle(normal, plane_point, vertices,
                                         side_a[1], side_b, acc.a, acc.b))
      [] Len(side_a) = 2 /\ Len(side_b) = 1 ->
           ToSingleB(acc, split_triangle(normal, plane_point, vertices,
                                         side_b[1], side_a, acc.b, acc.a))
      [] OTHER -> [acc EXCEPT !.panicked = TRUE]

\* the chunk loop of split_mesh from chunk k on (it ends at the panic)
RECURSIVE SplitLoop(_, _, _, _, _, _)
SplitLoop(mesh, normal, plane_point, cls, k, acc) ==
    IF 3 * (k - 1) >= Len(mesh.indices) \/ acc.panicked THEN acc
    ELSE SplitLoop(mesh, normal, plane_point, cls, k + 1,
                   MatchChunk(normal, plane_point, mesh.vertices,
                              SelectSeq(Chunk(mesh.indices, k),
                                        LAMBDA index : cls[index + 1]),
                              SelectSeq(Chunk(mesh.indices, k),
                                        LAMBDA index : ~cls[index + 1]),
                              acc))

\* Fault variant of Validated: the mesh is returned without the validity check.
Validated_unchecked(mesh, offset) == Some(mesh, offset)

\* the end of the closure below: create_mesh_2d and the validity check
Validated(mesh, offset) == IF valid_mesh(mesh) THEN Some(mesh, offset) ELSE None

Recentered(recentered, indices) ==
    Validated(create_mesh_2d(recentered[1], indices), recentered[2])

Merged(merged) == Recentered(recenter_mesh(merged[1]), merged[2])

Removed(removed) == Merged(merge_vertices(removed[1], removed[2]))

\* the closure mapped over the two sides at the end of split_mesh:
\* remove_unused_vertices, merge_vertices, recenter_mesh, create_mesh_2d,
\* valid_mesh
CleanSide(side) ==
    IF side.vertex = <<>> \/ side.indices = <<>> THEN None
    ELSE Removed(remove_unused_vertices(side.vertex, side.indices))

\* split_mesh up to the cleanup: the two sides' raw buffers
RawSides(mesh, split_plane_direction, plane_point) ==
    LET normal == ImpactNormal(split_plane_direction)
    IN  SplitLoop(mesh, normal, plane_point,
                  Classify(mesh.vertices, normal, plane_point), 1,
                  [a |-> Side(<<>>, mesh.vertices),
                   b |-> Side(<<>>, mesh.vertices),
                   panicked |-> FALSE])

CleanSides(raw) ==
    IF raw.panicked THEN [panicked |-> TRUE, halves |-> <<None, None>>]
    ELSE [panicked |-> FALSE, halves |-> <<CleanSide(raw.a), CleanSide(raw.b)>>]

\* split_mesh: [panicked, halves], halves = <<side A, side B>>
split_mesh(mesh, split_plane_direction, plane_point) ==
    CleanSides(RawSides(mesh, split_plane_direction, plane_point))

-----------------------------------------------------------------------------
(* split_mesh.rs: shatter_mesh *)

SHATTER_MAX_RECURSION_DEPTH == 3

DistSq(p, q) == VDot(VSub(p, q), VSub(p, q))

\* mesh_longest_axis (mesh_utils.rs; its body is not among the sources): a scan
\* of all vertex pairs, the direction of the pair with the greatest distance,
\* here the first such pair in scan order and before normalisation.
mesh_longest_axis(mesh) ==
    LET n == Len(mesh.vertices)
        pairs == {pr \in (1..n) \X (1..n) : pr[1] < pr[2]}
        d(pr) == DistSq(mesh.vertices[pr[1]], mesh.vertices[pr[2]])
        Before(p1, p2) == p1[1] < p2[1] \/ (p1[1] = p2[1] /\ p1[2] <= p2[2])
        best == CHOOSE pr \in pairs :
                    \A other \in pairs :
                        \/ RLt(d(other), d(pr))
                        \/ (d(other) = d(pr) /\ Before(pr, other))
    IN  VSub(mesh.vertices[best[2]], mesh.vertices[best[1]])

\* a work-list item (current_mesh, current_offset, depth)
Item(mesh, offset, depth) == [mesh |-> mesh, offset |-> offset, depth |-> depth]

\* Fault variant of ShatterEmits: the depth test is off by one (>= for >).
ShatterEmits_off_by_one(item, max_area) ==
    \/ item.depth >= SHATTER_MAX_RECURSION_DEPTH
    \/ RLe(calculate_mesh_area(item.mesh), max_area)

\* Fault variant of ShatterEmits: the ceiling is one level deeper.
ShatterEmits_one_deeper(item, max_area) ==
    \/ item.depth > SHATTER_MAX_RECURSION_DEPTH + 1
    \/ RLe(calculate_mesh_area(item.mesh), max_area)

\* the test that emits the popped item as a fragment
ShatterEmits(item, max_area) ==
    \/ item.depth > SHATTER_MAX_RECURSION_DEPTH
    \/ RLe(calculate_mesh_area(item.mesh), max_area)

\* direction of the cut of the popped mesh (before .normalize())
ShatterDirection(mesh) ==
    LET longest_axis == mesh_longest_axis(mesh)
    IN  <<RNeg(longest_axis[2]), longest_axis[1]>>

\* Fault variant of PushHalves: the halves are pushed with the depth of the
\* popped item (depth for depth + 1).
RECURSIVE PushHalves_same_depth(_, _, _, _)
PushHalves_same_depth(queue, halves, k, item) ==
    IF k > Len(halves) THEN queue
    ELSE IF halves[k].some
         THEN PushHalves_same_depth(Append(queue,
                                           Item(halves[k].mesh,
                                                VAdd(item.offset, halves[k].offset),
                                                item.depth)),
                                    halves, k + 1, item)
         ELSE PushHalves_same_depth(queue, halves, k + 1, item)

\* Fault variant of PushHalves: the halves are pushed with their own offset
\* (half_offset for current_offset + half_offset).
RECURSIVE PushHalves_half_offset(_, _, _, _)
PushHalves_half_offset(queue, halves, k, item) ==
    IF k > Len(halves) THEN queue
    ELSE IF halves[k].some
         THEN PushHalves_half_offset(Append(queue,
                                            Item(halves[k].mesh, halves[k].offset,
                                                 item.depth + 1)),
                                     halves, k + 1, item)
         ELSE PushHalves_half_offset(queue, halves, k + 1, item)

\* halves.into_iter().flatten(): the present halves, side A first
RECURSIVE PushHalves(_, _, _, _)
PushHalves(queue, halves, k, item) ==
    IF k > Len(halves) THEN queue
    ELSE IF halves[k].some
         THEN PushHalves(Append(queue,
                                Item(halves[k].mesh,
                                     VAdd(item.offset, halves[k].offset),
                                     item.depth + 1)),
                         halves, k + 1, item)
         ELSE PushHalves(queue, halves, k + 1, item)

-----------------------------------------------------------------------------
(* split_mesh.rs: trim_mesh *)

\* the greatest k in lo..hi with k * k <= n (lo * lo <= n)
RECURSIVE ISqrtIn(_, _, _)
ISqrtIn(n, lo, hi) ==
    IF lo >= hi THEN lo
    ELSE IF ((lo + hi + 1) \div 2) * ((lo + hi + 1) \div 2) <= n
         THEN ISqrtIn(n, (lo + hi + 1) \div 2, hi)
         ELSE ISqrtIn(n, lo, (lo + hi + 1) \div 2 - 1)

\* the first `bits` binary digits of the fraction r / d (0 <= r < d), as a number
RECURSIVE FractionBits(_, _, _, _)
FractionBits(r, d, bits, acc) ==
    IF bits = 0 THEN acc
    ELSE FractionBits((2 * r) % d, d, bits - 1, 2 * acc + (2 * r) \div d)

\* f32::sqrt of a rational x >= 0, rounded down to a multiple of 1/64 (the
\* code rounds to 24 bits): the integer square root of floor(4096 x), over 64
Sqrt(x) ==
    Rat(ISqrtIn((x[1] \div x[2]) * 4096 + FractionBits(x[1] % x[2], x[2], 12, 0),
                0, 46340),
        64)

\* std::f32::consts::PI as the fraction 355/113
PI == <<355, 113>>

\* the filter of the candidates: v[0].abs() > 0. && v[1].abs() > 0.
Eligible(vertex) == RLt(RZero, RAbs(vertex[1])) /\ RLt(RZero, RAbs(vertex[2]))

\* the positions of the eligible vertices, in the order of the mesh
EligibleVertices(mesh) == SelectSeq(mesh.vertices, Eligible)

\* the number of candidates asked of choose_multiple
TRIM_CANDIDATES == 5

\* Fault variant of ChooseMultiple: every element is chosen.
ChooseMultiple_all(elements) == {elements}

\* IteratorRandom::choose_multiple(rng, 5), the reservoir of rand: with at most
\* 5 elements it is the elements in their order; with more, slot j holds
\* element j or any later element than the 5th, each element at most once.
ChooseMultiple(elements) ==
    IF Len(elements) <= TRIM_CANDIDATES THEN {elements}
    ELSE LET slots == {pick \in [1..TRIM_CANDIDATES -> 1..Len(elements)] :
                          /\ \A j \in 1..TRIM_CANDIDATES :
                                pick[j] = j \/ pick[j] > TRIM_CANDIDATES
                          /\ \A j, k \in 1..TRIM_CANDIDATES :
                                j # k => pick[j] # pick[k]}
         IN  {[j \in 1..TRIM_CANDIDATES |-> elements[pick[j]]] : pick \in slots}

\* a rational x >= 0 rounded down to a multiple of 1/4.  The square root makes
\* the position of the cut irrational; the model places the cut on a point
\* whose coordinates are those of the vertex times a multiple of 1/4, so that
\* the repeated cuts of trim_mesh stay exact in split_mesh.
Round(x) == Rat((x[1] \div x[2]) * 4 + FractionBits(x[1] % x[2], x[2], 2, 0), 4)

\* radius = (mesh_area / PI).sqrt() * 1.05, with mesh_area rounded first
TrimRadius(mesh_area) == RMul(Sqrt(RDiv(Round(mesh_area), PI)), <<21, 20>>)

\* |vertex|, the divisor of vertex.normalize()
VLength(vertex) == Sqrt(Round(VDot(vertex, vertex)))

\* vertex_position = vertex.normalize() * radius, with the factor of vertex
\* rounded
TrimPoint(vertex, mesh_area) ==
    VScale(Round(RDiv(TrimRadius(mesh_area), VLength(vertex))), vertex)

\* normal = (-vertex_direction.y, vertex_direction.x), the direction of the cut;
\* the model keeps the length of vertex (split_mesh uses the direction of its
\* argument only)
TrimNormal(vertex) == <<RNeg(vertex[2]), vertex[1]>>

-----------------------------------------------------------------------------
(* Inputs *)

\* the 2h x 2h square of the tests (corners (+-h, +-h))
Square(h) ==
    Mesh(<<V(-h, -h), V(h, -h), V(h, h), V(-h, h)>>, <<0, 1, 2, 2, 3, 0>>)

MaxHalfSide == 5
GridMax == 1
PointMax == 3
PointDen == 5

Squares == {Square(h) : h \in 1..MaxHalfSide}

\* counter-clockwise triangles with a corner at (-1, -1) and the other two on
\* the integer grid
GridPoints == {V(x, y) : x, y \in -GridMax..GridMax}
Triangles ==
    {m \in {Mesh(<<V(-1, -1), b, c>>, <<0, 1, 2>>) : b, c \in GridPoints} :
        RLt(RZero, CrossZ(m.vertices, <<0, 1, 2>>))}

\* two counter-clockwise triangles that share vertex 0: a wide wing to the
\* upper left and a narrow, short wing to the upper right
Chevron ==
    Mesh(<<V(0, -1), V(-1, 1), V(-2, 1),
           <<Rat(2, 5), Rat(2, 5)>>, <<Rat(1, 5), Rat(2, 5)>>>>,
         <<0, 1, 2, 0, 3, 4>>)

\* the triangle of test_split_triangle with its vertices in clockwise order
ClockwiseTriangle == Mesh(<<V(-1, 2), V(1, 0), V(-1, -2)>>, <<0, 1, 2>>)

Meshes == Squares \cup Triangles \cup {Chevron, ClockwiseTriangle}

\* a mesh moved by a vector
Translate(mesh, by) ==
    Mesh([k \in 1..Len(mesh.vertices) |-> VAdd(mesh.vertices[k], by)], mesh.indices)

\* the lower left half of the 2h x 2h square with its corner at (-1, -1)
RightTriangle(h) ==
    Mesh(<<V(-1, -1), V(2 * h - 1, -1), V(-1, 2 * h - 1)>>, <<0, 1, 2>>)

\* the square of side 2/5: its corners are within the weld tolerance of each
\* other
TinySquare ==
    Mesh(<<<<Rat(-1, 5), Rat(-1, 5)>>, <<Rat(1, 5), Rat(-1, 5)>>,
           <<Rat(1, 5), Rat(1, 5)>>, <<Rat(-1, 5), Rat(1, 5)>>>>,
         <<0, 1, 2, 2, 3, 0>>)

\* shatter_mesh is run on the squares, centred and moved off the origin by
\* three half sides, on the half squares (on skew triangles four levels
\* of cuts outgrow TLC's 32-bit integers) and on the square of side 2/5
ShatterMeshes ==
    Squares \cup {Translate(Square(h), V(3 * h, 0)) : h \in 1..MaxHalfSide}
        \cup {RightTriangle(h) : h \in 1..MaxHalfSide} \cup {TinySquare}

Directions ==
    {V(0, 1), V(1, 0), V(0, -1), V(-1, 0), V(1, 1), V(1, -1), V(-1, 1), V(-1, -1)}

\* points the cutting line passes through: on the x axis in steps of
\* 1 / PointDen, and one far from every mesh
Points ==
    {<<Rat(i, PointDen), RZero>> : i \in -PointMax..PointMax} \cup {V(5, 5)}

MaxShardAreas == {R(0), R(2), R(6), R(12), R(1000)}

\* the 10 x 10 square with two more vertices on its right edge, as a fan of 4
\* counter-clockwise triangles around its top left corner: 6 eligible vertices
SixVertexSquare ==
    Mesh(<<V(5, -5), V(5, -1), V(5, 1), V(5, 5), V(-5, 5), V(-5, -5)>>,
         <<4, 5, 0, 4, 0, 1, 4, 1, 2, 4, 2, 3>>)

\* a counter-clockwise triangle around the origin whose only vertex off the
\* axes, (1, 1), is nearer to the origin than the radius of trim_mesh
NearVertexTriangle == Mesh(<<V(1, 1), V(-5, 0), V(0, -5)>>, <<0, 1, 2>>)

\* trim_mesh is run on the squares, on the grid triangles that have a vertex
\* on an axis (a third cut of a skew triangle outgrows TLC's 32-bit integers),
\* on the square with 6 vertices and on the triangle with a vertex near the
\* origin
TrimMeshes ==
    Squares \cup {m \in Triangles : Len(EligibleVertices(m)) < Len(m.vertices)}
        \cup {SixVertexSquare, NearVertexTriangle}

-----------------------------------------------------------------------------
(* The state machine: one call of an entry point on an input drawn in Init *)

VARIABLES
    op,             \* the function called: "split", "shatter" or "trim", or one
                    \* of mesh_utils.rs: "ensure_ccw", "is_ccw_winded"
    mesh_in,        \* its mesh argument
    max_shard_area, \* shatter_mesh's second argument
    pc,             \* "call", "loop" (inside shatter_mesh's while), "trim"
                    \* (inside trim_mesh's for), "done", "panicked"
    call,           \* the arguments of the latest split_mesh call
    ret,            \* what that call returned
    queue,          \* shatter_mesh's work list
    result,         \* shatter_mesh's result list; each fragment is kept with the
                    \* depth it was emitted at, which the code drops.  For a
                    \* function of mesh_utils.rs: the one value it returned
    main_mesh,      \* trim_mesh's main_mesh
    offset,         \* trim_mesh's offset
    shards,         \* trim_mesh's shards
    candidates,     \* the chosen vertices that trim_mesh's for loop has yet to visit
    splits          \* the number of split_mesh calls the entry point has made

vars ==
    <<op, mesh_in, max_shard_area, pc, call, ret, queue, result,
      main_mesh, offset, shards, candidates, splits>>

trim_vars == <<main_mesh, offset, shards, candidates>>

NoCall == [mesh |-> Mesh(<<>>, <<>>), direction |-> VZero, point |-> VZero, depth |-> 0]
NoRet == [panicked |-> FALSE, halves |-> <<None, None>>]

Init ==
    /\ \/ op = "split" /\ mesh_in \in Meshes /\ max_shard_area = RZero
       \/ op = "shatter" /\ mesh_in \in ShatterMeshes /\ max_shard_area \in MaxShardAreas
       \/ op = "trim" /\ mesh_in \in TrimMeshes /\ max_shard_area = RZero
    /\ pc = "call"
    /\ call = NoCall
    /\ ret = NoRet
    /\ queue = <<>>
    /\ result = <<>>
    /\ main_mesh = Mesh(<<>>, <<>>)
    /\ offset = VZero
    /\ shards = <<>>
    /\ candidates = <<>>
    /\ splits = 0

\* a caller's split_mesh(&mesh, direction, point)
Split ==
    /\ op = "split" /\ pc = "call"
    /\ \E d \in Directions, p \in Points :
          /\ call' = [mesh |-> mesh_in, direction |-> d, point |-> p, depth |-> 0]
          /\ ret' = split_mesh(mesh_in, d, p)
    /\ pc' = "done"
    /\ splits' = splits + 1
    /\ UNCHANGED <<op, mesh_in, max_shard_area, queue, result, trim_vars>>

\* shatter_mesh up to its while loop
ShatterStart ==
    /\ op = "shatter" /\ pc = "call"
    /\ queue' = <<Item(mesh_in, VZero, 0)>>
    /\ result' = <<>>
    /\ pc' = "loop"
    /\ UNCHANGED <<op, mesh_in, max_shard_area, call, ret, trim_vars, splits>>

\* one iteration of the while loop that emits the popped item
ShatterEmit ==
    /\ pc = "loop" /\ queue # <<>>
    /\ ShatterEmits(queue[Len(queue)], max_shard_area)
    /\ result' = Append(result, queue[Len(queue)])
    /\ queue' = SubSeq(queue, 1, Len(queue) - 1)
    /\ UNCHANGED <<op, mesh_in, max_shard_area, pc, call, ret, trim_vars, splits>>

\* the rest of the iteration once split_mesh has returned r
PushSplit(item, d, r) ==
    /\ call' = [mesh |-> item.mesh, direction |-> d, point |-> VZero,
                depth |-> item.depth]
    /\ ret' = r
    /\ IF r.panicked
       THEN pc' = "panicked" /\ queue' = SubSeq(queue, 1, Len(queue) - 1)
       ELSE /\ pc' = pc
            /\ queue' = PushHalves(SubSeq(queue, 1, Len(queue) - 1), r.halves, 1, item)

\* Fault variant of SplitItem: once a call has been made, what it returned is
\* returned again instead of the halves of the popped item.
SplitItem_stale(item, d) ==
    PushSplit(item, d, IF call = NoCall THEN split_mesh(item.mesh, d, VZero) ELSE ret)

SplitItem(item, d) == PushSplit(item, d, split_mesh(item.mesh, d, VZero))

\* one iteration of the while loop that splits the popped item
ShatterSplit ==
    /\ pc = "loop" /\ queue # <<>>
    /\ ~ShatterEmits(queue[Len(queue)], max_shard_area)
    /\ SplitItem(queue[Len(queue)], ShatterDirection(queue[Len(queue)].mesh))
    /\ splits' = splits + 1
    /\ UNCHANGED <<op, mesh_in, max_shard_area, result, trim_vars>>

\* the while loop ends: shatter_mesh returns result
ShatterReturn ==
    /\ pc = "loop" /\ queue = <<>>
    /\ pc' = "done"
    /\ UNCHANGED <<op, mesh_in, max_shard_area, call, ret, queue, result, trim_vars, splits>>

\* trim_mesh up to its for loop: the candidates are chosen
TrimStart ==
    /\ op = "trim" /\ pc = "call"
    /\ main_mesh' = mesh_in
    /\ offset' = VZero
    /\ shards' = <<>>
    /\ candidates' \in ChooseMultiple(EligibleVertices(mesh_in))
    /\ pc' = "trim"
    /\ UNCHANGED <<op, mesh_in, max_shard_area, call, ret, queue, result, splits>>

\* the rest of an iteration of the for loop once split_mesh has returned r:
\* the let-else with unreachable!, the push of the shard, the new main mesh
TrimTake(normal, vertex_position, r) ==
    /\ call' = [mesh |-> main_mesh, direction |-> normal, point |-> vertex_position,
                depth |-> 0]
    /\ ret' = r
    /\ IF r.panicked \/ ~r.halves[1].some
       THEN pc' = "panicked" /\ UNCHANGED trim_vars
       ELSE /\ pc' = pc
            /\ shards' = IF r.halves[2].some
                         THEN Append(shards,
                                     [mesh |-> r.halves[2].mesh,
                                      offset |-> VAdd(offset, r.halves[2].offset)])
                         ELSE shards
            /\ main_mesh' = r.halves[1].mesh
            /\ offset' = VAdd(offset, r.halves[1].offset)
            /\ candidates' = Tail(candidates)

TrimSplit(normal, vertex_position) ==
    TrimTake(normal, vertex_position, split_mesh(main_mesh, normal, vertex_position))

\* one iteration of the for loop of trim_mesh
TrimStep ==
    /\ pc = "trim" /\ candidates # <<>>
    /\ TrimSplit(TrimNormal(Head(candidates)),
                 TrimPoint(Head(candidates), calculate_mesh_area(main_mesh)))
    /\ splits' = splits + 1
    /\ UNCHANGED <<op, mesh_in, max_shard_area, queue, result>>

\* the for loop ends: trim_mesh returns ((main_mesh, offset), shards)
TrimReturn ==
    /\ pc = "trim" /\ candidates = <<>>
    /\ pc' = "done"
    /\ UNCHANGED <<op, mesh_in, max_shard_area, call, ret, queue, result, trim_vars, splits>>

Next ==
    \/ Split \/ ShatterStart \/ ShatterEmit \/ ShatterSplit \/ ShatterReturn
    \/ TrimStart \/ TrimStep \/ TrimReturn

Spec == Init /\ [][Next]_vars

-----------------------------------------------------------------------------
(* mesh_utils.rs: the winding functions called on their own *)

\* Calls of the winding functions of mesh_utils.rs, on three positions and an
\* index triple.  mesh_in holds the two arguments.
WindingVertices == {<<V(-1, -1), b, c>> : b, c \in GridPoints}
IndexTriples == {<<i, j, k>> : i, j, k \in 0..2}

UtilsInit ==
    /\ op \in {"ensure_ccw", "is_ccw_winded"}
    /\ mesh_in \in {Mesh(v, i) : v \in WindingVertices, i \in IndexTriples}
    /\ max_shard_area = RZero
    /\ pc = "call"
    /\ call = NoCall
    /\ ret = NoRet
    /\ queue = <<>>
    /\ result = <<>>
    /\ main_mesh = Mesh(<<>>, <<>>)
    /\ offset = VZero
    /\ shards = <<>>
    /\ candidates = <<>>
    /\ splits = 0

\* ensure_ccw(&vertices, &mut indices): the value returned is indices after the call
EnsureCcw ==
    /\ op = "ensure_ccw" /\ pc = "call"
    /\ result' = <<ensure_ccw(mesh_in.vertices, mesh_in.indices)>>
    /\ pc' = "done"
    /\ UNCHANGED <<op, mesh_in, max_shard_area, call, ret, queue, trim_vars, splits>>

\* is_ccw_winded(&vertices, &indices)
IsCcwWinded ==
    /\ op = "is_ccw_winded" /\ pc = "call"
    /\ result' = <<is_ccw_winded(mesh_in.vertices, mesh_in.indices)>>
    /\ pc' = "done"
    /\ UNCHANGED <<op, mesh_in, max_shard_area, call, ret, queue, trim_vars, splits>>

UtilsNext == EnsureCcw \/ IsCcwWinded

UtilsSpec == UtilsInit /\ [][UtilsNext]_vars

-----------------------------------------------------------------------------
(* edge_wrap.rs: edge_positions *)

\* the closure determine_position of edge_positions, with >= for the first >
\* (fault variant)
determine_position_reaching(min_edge, max_edge, bound) ==
    IF RLe(bound, min_edge) THEN "Outside"
    ELSE IF RLt(bound, max_edge) THEN "Intersecting"
    ELSE "Inside"

\* the closure determine_position of edge_positions
determine_position(min_edge, max_edge, bound) ==
    IF RLt(bound, min_edge) THEN "Outside"
    ELSE IF RLt(bound, max_edge) THEN "Intersecting"
    ELSE "Inside"

\* the four extents of edge_positions: pos -+ aabb.half_extents()
MinX(pos, half_extents) == RSub(pos[1], half_extents[1])
MaxX(pos, half_extents) == RAdd(pos[1], half_extents[1])
MinY(pos, half_extents) == RSub(pos[2], half_extents[2])
MaxY(pos, half_extents) == RAdd(pos[2], half_extents[2])

\* edge_positions, from the translation of the GlobalTransform, the half
\* extents of the axis-aligned bounding box of the collider and bounds.0
edge_positions(pos, half_extents, bounds) ==
    [top |-> determine_position(MinY(pos, half_extents), MaxY(pos, half_extents),
                                bounds[2]),
     bottom |-> determine_position(RNeg(MaxY(pos, half_extents)),
                                   RNeg(MinY(pos, half_extents)), bounds[2]),
     left |-> determine_position(RNeg(MaxX(pos, half_extents)),
                                 RNeg(MinX(pos, half_extents)), bounds[1]),
     right |-> determine_position(MinX(pos, half_extents), MaxX(pos, half_extents),
                                  bounds[1])]

\* Calls of edge_positions.  mesh_in holds the three arguments: translations on
\* the integer grid up to PosMax, half extents up to ExtentMax, and the bounds of
\* the tests of edge_positions (equal in x and y) in units of 100.
PosMax == 7
ExtentMax == 6
TestBounds == V(5, 5)

EdgeArguments ==
    {[pos |-> V(x, y), half_extents |-> V(w, h), bounds |-> TestBounds] :
        x, y \in -PosMax..PosMax, w, h \in 1..ExtentMax}

EdgeInit ==
    /\ op = "edge_positions"
    /\ mesh_in \in EdgeArguments
    /\ max_shard_area = RZero
    /\ pc = "call"
    /\ call = NoCall
    /\ ret = NoRet
    /\ queue = <<>>
    /\ result = <<>>
    /\ main_mesh = Mesh(<<>>, <<>>)
    /\ offset = VZero
    /\ shards = <<>>
    /\ candidates = <<>>
    /\ splits = 0

\* edge_positions(&global_transform, &collider, &bounds)
EdgePositions ==
    /\ op = "edge_positions" /\ pc = "call"
    /\ result' = <<edge_positions(mesh_in.pos, mesh_in.half_extents, mesh_in.bounds)>>
    /\ pc' = "done"
    /\ UNCHANGED <<op, mesh_in, max_shard_area, call, ret, queue, trim_vars, splits>>

EdgeNext == EdgePositions

EdgeSpec == EdgeInit /\ [][EdgeNext]_vars

-----------------------------------------------------------------------------
(* Properties.  `call` and `ret` hold the latest split_mesh call and what it
   returned, whether the caller was the user of the module or shatter_mesh. *)

\* split_mesh has been called and has returned
Called == call # NoCall

BothSides == ret.halves[1].some /\ ret.halves[2].some

SideMesh(k) == ret.halves[k].mesh
SideArea(k) == calculate_mesh_area(ret.halves[k].mesh)

\* vertex i of returned side k, translated back by the returned offset
Restored(k, i) == VAdd(ret.halves[k].mesh.vertices[i], ret.halves[k].offset)

\* signed distance (times |normal|) of a position to the cutting line of the call
CallDistance(position) ==
    distance_to_plane(position, ImpactNormal(call.direction), call.point)

TriangleCount(mesh) == Len(mesh.indices) \div 3
TriangleAt(mesh, t) ==
    <<mesh.indices[3 * t - 2], mesh.indices[3 * t - 1], mesh.indices[3 * t]>>

AllCCW(mesh) ==
    \A t \in 1..TriangleCount(mesh) : is_ccw_winded(mesh.vertices, TriangleAt(mesh, t))

NoOrphan(mesh) ==
    \A v \in 0..(Len(mesh.vertices) - 1) :
        \E k \in 1..Len(mesh.indices) : mesh.indices[k] = v

RECURSIVE ResultArea(_)
ResultArea(k) ==
    IF k > Len(result) THEN RZero
    ELSE RAdd(calculate_mesh_area(result[k].mesh), ResultArea(k + 1))

\* the raw buffers of the two sides of the latest call, before the cleanup
CallRaw == RawSides(call.mesh, call.direction, call.point)
RawSide(k) == IF k = 1 THEN CallRaw.a ELSE CallRaw.b

\* C1: whenever split_mesh returns both sides, the areas of the two returned
\* meshes add up to the area of the input mesh.
C1_AreaConserved ==
    (Called /\ BothSides) =>
        RAdd(SideArea(1), SideArea(2)) = calculate_mesh_area(call.mesh)

\* C1, the failing call: both sides come back with a positive area and the
\* two areas add up to less than the area of the input.
C1_AreaLost ==
    /\ Called /\ BothSides
    /\ RLt(RZero, SideArea(1)) /\ RLt(RZero, SideArea(2))
    /\ RLt(RAdd(SideArea(1), SideArea(2)), calculate_mesh_area(call.mesh))

\* C2: every vertex of a returned side A, translated back by the returned
\* offset, is at signed distance >= 0 from the cutting line, and every vertex
\* of a returned side B at signed distance <= 0.
C2_SideSeparation ==
    Called =>
        /\ ret.halves[1].some =>
              \A i \in 1..Len(SideMesh(1).vertices) :
                  RLe(RZero, CallDistance(Restored(1, i)))
        /\ ret.halves[2].some =>
              \A i \in 1..Len(SideMesh(2).vertices) :
                  RLe(CallDistance(Restored(2, i)), RZero)

\* C2, its case: a cut through a triangle whose clipped parts come back on both
\* sides, each with a vertex on the line and a vertex off it, after welding
\* has removed a vertex from side A.
C2_Clipped ==
    /\ Called /\ BothSides
    /\ \E i \in 1..Len(SideMesh(1).vertices) : CallDistance(Restored(1, i)) = RZero
    /\ \E i \in 1..Len(SideMesh(1).vertices) : RLt(RZero, CallDistance(Restored(1, i)))
    /\ \E i \in 1..Len(SideMesh(2).vertices) : CallDistance(Restored(2, i)) = RZero
    /\ \E i \in 1..Len(SideMesh(2).vertices) : RLt(CallDistance(Restored(2, i)), RZero)
    /\ Len(SideMesh(1).vertices) < Cardinality(UsedVertices(CallRaw.a.indices))

\* C3: every triangle of every mesh that split_mesh returns, and of every
\* fragment in shatter_mesh's result, is counter-clockwise (cross product >= 0).
C3_Winding ==
    /\ Called => \A k \in 1..2 : ret.halves[k].some => AllCCW(SideMesh(k))
    /\ \A i \in 1..Len(result) : AllCCW(result[i].mesh)

\* C3, the failing call: a counter-clockwise input mesh, and a returned side
\* with a clockwise triangle.
C3_Clockwise ==
    /\ Called /\ AllCCW(call.mesh)
    /\ \E k \in 1..2 : ret.halves[k].some /\ ~AllCCW(SideMesh(k))

\* C4: in every mesh that split_mesh returns, every vertex is referenced by
\* at least one triangle.
C4_NoOrphanVertices ==
    Called => \A k \in 1..2 : ret.halves[k].some => NoOrphan(SideMesh(k))

\* C4, the failing call: the input has no unreferenced vertex and a returned
\* side has one.
C4_Orphan ==
    /\ Called /\ NoOrphan(call.mesh)
    /\ \E k \in 1..2 : ret.halves[k].some /\ ~NoOrphan(SideMesh(k))

\* C5: split_mesh raises no error; every mesh it returns has at least 1
\* vertex, at least 1 triangle, an index count divisible by 3 and two indices
\* that differ; and a side that received no triangle is None.
C5_DegenerateIsNone ==
    Called =>
        /\ ~ret.panicked
        /\ \A k \in 1..2 :
              /\ ret.halves[k].some =>
                    /\ Len(SideMesh(k).vertices) >= 1
                    /\ Len(SideMesh(k).indices) >= 3
                    /\ Len(SideMesh(k).indices) % 3 = 0
                    /\ \E i, j \in 1..Len(SideMesh(k).indices) :
                          SideMesh(k).indices[i] # SideMesh(k).indices[j]
              /\ RawSide(k).indices = <<>> => ~ret.halves[k].some

\* C5, its case: a side that received triangles, all of them welded away by the
\* cleanup (a sliver), comes back as None while the other side is returned.
C5_SliverIsNone ==
    /\ Called /\ ~ret.panicked
    /\ \E k \in 1..2 :
          /\ RawSide(k).indices # <<>>
          /\ ~ret.halves[k].some
          /\ ret.halves[3 - k].some

RECURSIVE Pow2(_)
Pow2(n) == IF n <= 0 THEN 1 ELSE 2 * Pow2(n - 1)

\* the greatest number of iterations of the while loop that an item of the work
\* list can still cause: its own and those of its descendants down to depth
\* SHATTER_MAX_RECURSION_DEPTH + 1, two per split
ItemWork(item) == Pow2(SHATTER_MAX_RECURSION_DEPTH + 2 - item.depth) - 1

RECURSIVE Work(_)
Work(q) == IF q = <<>> THEN 0 ELSE ItemWork(Head(q)) + Work(Tail(q))

\* C6: shatter_mesh terminates.  Every iteration of its while loop either
\* finds the work list empty and returns, or goes on with a work list whose
\* remaining work, a natural number, is smaller than before; and no item is
\* deeper than SHATTER_MAX_RECURSION_DEPTH + 1.
C6_ShatterTerminates ==
    [][pc = "loop" =>
          \/ queue = <<>> /\ pc' = "done"
          \/ /\ pc' = "loop"
             /\ Work(queue') < Work(queue)
             /\ \A k \in 1..Len(queue') :
                   queue'[k].depth <= SHATTER_MAX_RECURSION_DEPTH + 1]_vars

\* C6, its case: shatter_mesh has returned for max_shard_area = 0 and a square
\* that the first cut misses (the one half has the area of the whole), with
\* fragments that were emitted only because of their depth.
C6_ReturnedAtCeiling ==
    /\ op = "shatter" /\ pc = "done"
    /\ max_shard_area = RZero
    /\ mesh_in = Translate(Square(1), V(3, 0))
    /\ \E i \in 1..Len(result) :
          /\ result[i].depth > SHATTER_MAX_RECURSION_DEPTH
          /\ RLt(max_shard_area, calculate_mesh_area(result[i].mesh))

\* C7: every fragment in shatter_mesh's result has area <= max_shard_area or
\* was emitted at a depth greater than SHATTER_MAX_RECURSION_DEPTH.
C7_ShatterBound ==
    \A i \in 1..Len(result) :
        \/ RLe(calculate_mesh_area(result[i].mesh), max_shard_area)
        \/ result[i].depth > SHATTER_MAX_RECURSION_DEPTH

\* C7, its case: the 10x10 square shattered with max_shard_area = 2 has
\* returned, with a fragment over the area bound that was emitted at a depth
\* above the ceiling.
C7_EmittedAtCeiling ==
    /\ op = "shatter" /\ pc = "done"
    /\ mesh_in = Square(5) /\ max_shard_area = R(2)
    /\ \E i \in 1..Len(result) :
          /\ result[i].depth > SHATTER_MAX_RECURSION_DEPTH
          /\ RLt(max_shard_area, calculate_mesh_area(result[i].mesh))

\* C8: when shatter_mesh has returned, the areas of its fragments add up to
\* the area of the input mesh.
C8_ShatterConservesArea ==
    (op = "shatter" /\ pc = "done") => ResultArea(1) = calculate_mesh_area(mesh_in)

\* C8, the failing call: shatter_mesh has returned fragments whose areas add
\* up to less than the area of the input.
C8_ShatterAreaLost ==
    /\ op = "shatter" /\ pc = "done"
    /\ result # <<>>
    /\ RLt(ResultArea(1), calculate_mesh_area(mesh_in))

\* the call of the test test_split_mesh_vertically
SquareCall ==
    /\ call.mesh = Square(1)
    /\ call.direction = V(0, 1)
    /\ call.point = VZero

NoTwoWithinTolerance(mesh) ==
    \A i, j \in 1..Len(mesh.vertices) :
        i # j => ~AbsDiffEq(mesh.vertices[i], mesh.vertices[j], MERGE_TOLERANCE)

AllStrictlyA ==
    \A i \in 1..Len(call.mesh.vertices) : RLt(RZero, CallDistance(call.mesh.vertices[i]))
AllStrictlyB ==
    \A i \in 1..Len(call.mesh.vertices) : RLt(CallDistance(call.mesh.vertices[i]), RZero)

\* side k is the input again: same triangles, same area, and its vertices plus
\* the offset are the vertices of the input
SameAsInput(k) ==
    /\ ret.halves[k].some
    /\ SideMesh(k).indices = call.mesh.indices
    /\ SideArea(k) = calculate_mesh_area(call.mesh)
    /\ Len(SideMesh(k).vertices) = Len(call.mesh.vertices)
    /\ \A i \in 1..Len(SideMesh(k).vertices) : Restored(k, i) = call.mesh.vertices[i]

\* C10: when every vertex of a mesh without unreferenced vertices and without
\* two vertices within the weld tolerance is strictly on one side of the
\* cutting line, the other side is None and the occupied side is the input
\* again, up to the returned offset.
C10_OffMeshCut ==
    (Called /\ NoOrphan(call.mesh) /\ NoTwoWithinTolerance(call.mesh)) =>
        /\ AllStrictlyA => (SameAsInput(1) /\ ~ret.halves[2].some)
        /\ AllStrictlyB => (SameAsInput(2) /\ ~ret.halves[1].some)

\* C10, its case: the 2x2 square cut through (5, 5) comes back as one None and
\* one mesh of area 4.
C10_SquareMissed ==
    /\ Called /\ call.mesh = Square(1) /\ call.point = V(5, 5)
    /\ ~BothSides
    /\ \E k \in 1..2 : ret.halves[k].some /\ SideArea(k) = R(4)


Distinct3(mesh) ==
    \A t \in 1..TriangleCount(mesh) :
        /\ TriangleAt(mesh, t)[1] # TriangleAt(mesh, t)[2]
        /\ TriangleAt(mesh, t)[2] # TriangleAt(mesh, t)[3]
        /\ TriangleAt(mesh, t)[1] # TriangleAt(mesh, t)[3]

\* C11: every triangle of every mesh that split_mesh returns has three
\* pairwise distinct indices.
C11_DistinctIndices ==
    Called => \A k \in 1..2 : ret.halves[k].some => Distinct3(SideMesh(k))

\* C11, the failing call: the triangles of the input have pairwise distinct
\* indices, and a returned side has a triangle with a repeated index.
C11_RepeatedIndex ==
    /\ Called /\ Distinct3(call.mesh)
    /\ call.mesh = Square(1) /\ call.direction = V(1, 1) /\ call.point = VZero
    /\ ret.halves[2].some /\ ~Distinct3(SideMesh(2))


\* C12: in every mesh that split_mesh returns, no two vertices are within the
\* merge tolerance of each other (both coordinates differing by at most 1/2).
C12_WeldSeparation ==
    Called =>
        \A k \in 1..2 :
            ret.halves[k].some =>
                \A i, j \in 1..Len(SideMesh(k).vertices) :
                    i # j => ~AbsDiffEq(SideMesh(k).vertices[i],
                                        SideMesh(k).vertices[j], RHalf)

\* C12, its case: a returned side A of at least 3 vertices that has fewer
\* vertices than its raw buffer had in use, i.e. the cleanup has welded a
\* vertex onto one kept before it.
C12_Welded ==
    /\ Called /\ ret.halves[1].some
    /\ Len(SideMesh(1).vertices) >= 3
    /\ Len(SideMesh(1).vertices) < Cardinality(UsedVertices(CallRaw.a.indices))


IndicesInRange(mesh) ==
    \A k \in 1..Len(mesh.indices) :
        mesh.indices[k] >= 0 /\ mesh.indices[k] < Len(mesh.vertices)

\* a vertex list one longer than the 16-bit range, and a triangle on its last
\* vertex: the one case in which `as u16` changes an index
WideVertices == [k \in 1..(U16 + 1) |-> VZero]
WideMesh == create_mesh_2d(WideVertices, <<<<U16, 1, 2>>>>)

\* C13: every index of every mesh returned by split_mesh, shatter_mesh and
\* trim_mesh is smaller than the vertex count of that mesh, and so is an index
\* that the 16-bit conversion of create_mesh_2d has changed.
C13_IndexRange ==
    /\ \A k \in 1..2 : ret.halves[k].some => IndicesInRange(ret.halves[k].mesh)
    /\ \A k \in 1..Len(result) : IndicesInRange(result[k].mesh)
    /\ \A k \in 1..Len(shards) : IndicesInRange(shards[k].mesh)
    /\ pc = "trim" => IndicesInRange(main_mesh)
    /\ WideMesh.indices # <<U16, 1, 2>> /\ IndicesInRange(WideMesh)

\* C13, its case: side A comes back with fewer vertices than its raw buffer
\* had, and an index of the raw buffer would be out of range in it.
C13_Remapped ==
    /\ Called /\ ret.halves[1].some
    /\ \E t \in 1..Len(CallRaw.a.indices) :
          \E c \in 1..3 : CallRaw.a.indices[t][c] >= Len(SideMesh(1).vertices)
    /\ IndicesInRange(SideMesh(1))


\* min + max of the vertices of a mesh, on both axes
BoxSum(vertices) ==
    << RAdd(FoldMin(vertices, 1, 1), FoldMax(vertices, 1, 1)),
       RAdd(FoldMin(vertices, 2, 1), FoldMax(vertices, 2, 1)) >>

Centered(vertices) ==
    /\ BoxSum(vertices) = VZero
    /\ recenter_mesh(vertices) = <<vertices, VZero>>

\* C14: every mesh returned by split_mesh has min + max = 0 on both axes, and
\* recenter_mesh applied to it again returns the zero offset and the same
\* vertices.
C14_RecenterIdempotent ==
    Called => \A k \in 1..2 : ret.halves[k].some => Centered(SideMesh(k).vertices)

\* C14, its case: a side was moved by recenter_mesh (its offset is not zero) and
\* recentering it again changes nothing.
C14_MovedOnce ==
    /\ Called /\ ret.halves[1].some
    /\ ret.halves[1].offset[1] # RZero /\ ret.halves[1].offset[2] # RZero
    /\ Centered(SideMesh(1).vertices)


\* the two sides' buffers of the latest call after its first n chunks
CallPrefix(n) ==
    RawSides(Mesh(call.mesh.vertices, SubSeq(call.mesh.indices, 1, 3 * n)),
             call.direction, call.point)

CallClass ==
    Classify(call.mesh.vertices, ImpactNormal(call.direction), call.point)

\* side_a and side_b of chunk t of the latest call
ChunkA(t) == SelectSeq(Chunk(call.mesh.indices, t), LAMBDA index : CallClass[index + 1])
ChunkB(t) == SelectSeq(Chunk(call.mesh.indices, t), LAMBDA index : ~CallClass[index + 1])

\* chunk t is a 1-vs-2 triangle: split_mesh hands it to split_triangle
Clipped(t) == Len(ChunkA(t)) \in {1, 2}

SingleIsA(t) == Len(ChunkA(t)) = 1
Single(t) == IF SingleIsA(t) THEN ChunkA(t)[1] ELSE ChunkB(t)[1]
Pair(t) == IF SingleIsA(t) THEN ChunkB(t) ELSE ChunkA(t)
Minority(acc, t) == IF SingleIsA(t) THEN acc.a ELSE acc.b
Majority(acc, t) == IF SingleIsA(t) THEN acc.b ELSE acc.a

CallVertex(index) == call.mesh.vertices[index + 1]

\* position is on the cutting line and on the line through two vertices
OnCutAndEdge(position, v0, v1) ==
    /\ CallDistance(position) = RZero
    /\ RSub(RMul(RSub(position[1], v0[1]), RSub(v1[2], v0[2])),
            RMul(RSub(position[2], v0[2]), RSub(v1[1], v0[1]))) = RZero

IndexArea(vertex, triple) ==
    TriangleArea(vertex[triple[1] + 1], vertex[triple[2] + 1], vertex[triple[3] + 1])

\* what one call of split_triangle on chunk t has added to the buffers
Appended(before, after, t) ==
    LET single_before == Minority(before, t)
        single_after == Minority(after, t)
        pair_before == Majority(before, t)
        pair_after == Majority(after, t)
        n == Len(single_before.vertex)
        m == Len(pair_before.vertex)
        points == SubSeq(single_after.vertex, n + 1, Len(single_after.vertex))
    IN  /\ Len(single_after.indices) = Len(single_before.indices) + 1
        /\ Len(pair_after.indices) = Len(pair_before.indices) + 2
        /\ SubSeq(single_after.indices, 1, Len(single_before.indices))
              = single_before.indices
        /\ SubSeq(pair_after.indices, 1, Len(pair_before.indices))
              = pair_before.indices
        /\ Len(points) = 2
        /\ single_after.vertex = single_before.vertex \o points
        /\ pair_after.vertex = pair_before.vertex \o points
        /\ \A j \in 1..2 :
              OnCutAndEdge(points[j], CallVertex(Single(t)), CallVertex(Pair(t)[j]))
        /\ RAdd(IndexArea(single_after.vertex,
                          single_after.indices[Len(single_after.indices)]),
                RAdd(IndexArea(pair_after.vertex,
                               pair_after.indices[Len(pair_after.indices) - 1]),
                     IndexArea(pair_after.vertex,
                               pair_after.indices[Len(pair_after.indices)])))
              = IndexArea(call.mesh.vertices, Chunk(call.mesh.indices, t))

\* C15: one call of split_triangle appends one triangle to the side of the
\* single vertex and two to the side of the two vertices, appends the same two
\* intersection points, in the order of the two vertices, to both vertex
\* buffers, and the areas of the three triangles add up to the area of the
\* triangle that was cut.
C15_ClipperOutput ==
    Called =>
        \A t \in 1..TriangleCount(call.mesh) :
            Clipped(t) => Appended(CallPrefix(t - 1), CallPrefix(t), t)

\* C15, its case: a triangle of positive area with two vertices on side A is
\* cut after an earlier triangle has put triangles into the buffers.
C15_SecondTriangleCut ==
    /\ Called
    /\ \E t \in 2..TriangleCount(call.mesh) :
          /\ Clipped(t) /\ ~SingleIsA(t)
          /\ CallPrefix(t - 1).a.indices # <<>>
          /\ RLt(RZero, IndexArea(call.mesh.vertices, Chunk(call.mesh.indices, t)))
          /\ Appended(CallPrefix(t - 1), CallPrefix(t), t)


\* the triples that split_triangle appended for chunk t are counter-clockwise
\* in the vertex buffer of their side
AppendedCCW(after, t) ==
    LET single_after == Minority(after, t)
        pair_after == Majority(after, t)
    IN  /\ is_ccw_winded(single_after.vertex,
                         single_after.indices[Len(single_after.indices)])
        /\ is_ccw_winded(pair_after.vertex,
                         pair_after.indices[Len(pair_after.indices) - 1])
        /\ is_ccw_winded(pair_after.vertex,
                         pair_after.indices[Len(pair_after.indices)])

\* C16: each of the three triangles appended by split_triangle satisfies
\* is_ccw_winded in the vertex buffer of the side it was appended to.
C16_ClipperWinding ==
    Called =>
        \A t \in 1..TriangleCount(call.mesh) :
            Clipped(t) => AppendedCCW(CallPrefix(t), t)

\* C16, its case: a clockwise triangle with its single vertex on side B is cut
\* and the three triangles made of it are counter-clockwise.
C16_ClockwiseCut ==
    /\ Called
    /\ \E t \in 1..TriangleCount(call.mesh) :
          /\ Clipped(t) /\ ~SingleIsA(t)
          /\ ~is_ccw_winded(call.mesh.vertices, Chunk(call.mesh.indices, t))
          /\ AppendedCCW(CallPrefix(t), t)


\* C17: after ensure_ccw the triple satisfies is_ccw_winded; it is the triple
\* given or that triple with its second and third index swapped; it is the
\* triple given when that one was counter-clockwise already; and ensure_ccw
\* applied to it again returns it unchanged.
C17_EnsureCcw ==
    (op = "ensure_ccw" /\ pc = "done") =>
        /\ is_ccw_winded(mesh_in.vertices, result[1])
        /\ \/ result[1] = mesh_in.indices
           \/ result[1] = <<mesh_in.indices[1], mesh_in.indices[3], mesh_in.indices[2]>>
        /\ is_ccw_winded(mesh_in.vertices, mesh_in.indices) => result[1] = mesh_in.indices
        /\ ensure_ccw(mesh_in.vertices, result[1]) = result[1]

\* C17, its case: ensure_ccw has swapped the second and third index of a
\* clockwise triple of three different indices.
C17_Swapped ==
    /\ op = "ensure_ccw" /\ pc = "done"
    /\ Cardinality({mesh_in.indices[1], mesh_in.indices[2], mesh_in.indices[3]}) = 3
    /\ result[1] # mesh_in.indices
    /\ result[1] = <<mesh_in.indices[1], mesh_in.indices[3], mesh_in.indices[2]>>
    /\ is_ccw_winded(mesh_in.vertices, result[1])

\* twice the signed area of the triangle, by the formula of calculate_area
\* without its absolute value: positive for a counter-clockwise triangle,
\* negative for a clockwise one, zero for collinear points
SignedArea2(v0, v1, v2) ==
    RAdd(RAdd(RMul(v0[1], RSub(v1[2], v2[2])), RMul(v1[1], RSub(v2[2], v0[2]))),
         RMul(v2[1], RSub(v0[2], v1[2])))

SignedArea2Of(vertices, indices) ==
    SignedArea2(vertices[indices[1] + 1], vertices[indices[2] + 1],
                vertices[indices[3] + 1])

\* C18: is_ccw_winded returns true exactly when the triangle's signed area is
\* >= 0: true for a counter-clockwise triangle and for collinear points, false
\* for a clockwise triangle.
C18_IsCcwWinded ==
    (op = "is_ccw_winded" /\ pc = "done") =>
        (result[1] <=> RLe(RZero, SignedArea2Of(mesh_in.vertices, mesh_in.indices)))

\* C18, its case: is_ccw_winded has returned true for three different points
\* on one line.
C18_CollinearIsCcw ==
    /\ op = "is_ccw_winded" /\ pc = "done"
    /\ mesh_in.indices = <<0, 1, 2>>
    /\ Cardinality({mesh_in.vertices[1], mesh_in.vertices[2], mesh_in.vertices[3]}) = 3
    /\ SignedArea2Of(mesh_in.vertices, mesh_in.indices) = RZero
    /\ result[1] = TRUE


\* position lies between v0 and v1 in both coordinates
InBox(position, v0, v1) ==
    \A c \in 1..2 :
        /\ RLe(RMin(v0[c], v1[c]), position[c])
        /\ RLe(position[c], RMax(v0[c], v1[c]))

\* the points get_intersection_points_2d returns for chunk t of the latest call
ChunkPoints(t) ==
    get_intersection_points_2d(ImpactNormal(call.direction), call.mesh.vertices,
                               Single(t), Pair(t), call.point)

\* the divisor plane.normal.dot(direction) for the edge from v0 to v1
Divisor(v0, v1) == VDot(ImpactNormal(call.direction), VSub(v1, v0))

OnSegments(points, t) ==
    /\ Len(points) = Len(Pair(t))
    /\ \A j \in 1..Len(points) :
          /\ Divisor(CallVertex(Single(t)), CallVertex(Pair(t)[j])) # RZero
          /\ OnCutAndEdge(points[j], CallVertex(Single(t)), CallVertex(Pair(t)[j]))
          /\ InBox(points[j], CallVertex(Single(t)), CallVertex(Pair(t)[j]))

\* the call of test_intersections: the line x = 1, the vertex (2, 2) and the
\* opposite vertices (0, 0) and (4, 0), both on the other side of it
TestIntersections ==
    get_intersection_points_2d(V(1, 0), <<V(0, 0), V(2, 2), V(4, 0)>>, 1, <<0, 2>>,
                               V(1, 0))

\* C19: get_intersection_points_2d returns one point per opposite vertex, in
\* their order, each on the cutting line and on the line through the single
\* vertex and that opposite vertex; in the calls split_mesh makes the divisor is
\* not zero and each point lies between the two vertices.  In the call of
\* test_intersections the second point, (1, 3), is on the line through (2, 2)
\* and (4, 0) but not between them.
C19_IntersectionPoints ==
    /\ TestIntersections = <<V(1, 1), V(1, 3)>>
    /\ Called =>
          \A t \in 1..TriangleCount(call.mesh) :
              Clipped(t) => OnSegments(ChunkPoints(t), t)

\* C19, its case: a triangle is cut with its single vertex on side B, and the
\* two points are different points strictly inside their edges.
C19_TwoPointsInside ==
    /\ Called
    /\ \E t \in 1..TriangleCount(call.mesh) :
          /\ Clipped(t) /\ ~SingleIsA(t)
          /\ OnSegments(ChunkPoints(t), t)
          /\ ChunkPoints(t)[1] # ChunkPoints(t)[2]
          /\ \A j \in 1..2 :
                /\ ChunkPoints(t)[j] # CallVertex(Single(t))
                /\ ChunkPoints(t)[j] # CallVertex(Pair(t)[j])


Min(a, b) == IF a <= b THEN a ELSE b

\* the resources trim_mesh has used so far: split_mesh calls made and still to
\* make, and shards
TrimEffort ==
    /\ splits <= 5
    /\ splits <= Min(5, Len(EligibleVertices(mesh_in)))
    /\ pc = "trim" => splits + Len(candidates) = Min(5, Len(EligibleVertices(mesh_in)))
    /\ Len(shards) <= 5
    /\ Len(shards) <= splits

\* C20: trim_mesh makes at most 5 calls of split_mesh and at most as many as
\* the input has eligible vertices, collects at most 5 shards, and every step
\* of its loop either ends the call (the return, or the abort of the let-else)
\* or leaves fewer candidates to visit, whatever the cut did to the main mesh.
C20_TrimFixedEffort ==
    [][op = "trim" =>
          /\ TrimEffort'
          /\ pc = "trim" =>
                \/ candidates = <<>> /\ pc' = "done"
                \/ pc' = "panicked"
                \/ pc' = "trim" /\ Len(candidates') = Len(candidates) - 1]_vars

\* C20, its case: trim_mesh has returned for a mesh with more than 5 eligible
\* vertices after exactly 5 calls of split_mesh, with shards.
C20_FiveCuts ==
    /\ op = "trim" /\ pc = "done"
    /\ Len(EligibleVertices(mesh_in)) > 5
    /\ splits = 5
    /\ shards # <<>> /\ Len(shards) <= 5


\* the pair (side_a.len(), side_b.len()) of chunk t of the latest call
Configuration(t) == <<Len(ChunkA(t)), Len(ChunkB(t))>>

\* every index of chunk t is on side A exactly when its vertex has a distance
\* > 0 to the cutting line
SidesByDistance(t) ==
    \A c \in 1..3 :
        LET index == Chunk(call.mesh.indices, t)[c]
        IN  (\E j \in 1..Len(ChunkA(t)) : ChunkA(t)[j] = index)
                <=> RLt(RZero, CallDistance(CallVertex(index)))

\* C21: split_mesh puts every triangle into one of the configurations 3-0,
\* 0-3, 1-2 and 2-1, a vertex being on side A exactly when its distance is
\* > 0 (distance 0 is side B), and never reaches the panic of its match.
C21_ClassificationTotal ==
    Called =>
        /\ ~ret.panicked
        /\ ~CallRaw.panicked
        /\ \A t \in 1..TriangleCount(call.mesh) :
              /\ Configuration(t) \in {<<3, 0>>, <<0, 3>>, <<1, 2>>, <<2, 1>>}
              /\ SidesByDistance(t)

\* C21, its case: a triangle with one vertex exactly on the cutting line and
\* the other two strictly on side A is classified 2-1.
C21_OnLineIsB ==
    /\ Called /\ ~ret.panicked
    /\ \E t \in 1..TriangleCount(call.mesh) :
          /\ Configuration(t) = <<2, 1>>
          /\ CallDistance(CallVertex(ChunkB(t)[1])) = RZero
          /\ SidesByDistance(t)


\* a run of shatter_mesh from a work list and a result list to its return, in
\* one go: the second of two runs
RECURSIVE ShatterRun(_, _, _)
ShatterRun(work, fragments, max_area) ==
    IF work = <<>> THEN fragments
    ELSE IF ShatterEmits(work[Len(work)], max_area)
         THEN ShatterRun(SubSeq(work, 1, Len(work) - 1),
                         Append(fragments, work[Len(work)]), max_area)
         ELSE ShatterRun(PushHalves(SubSeq(work, 1, Len(work) - 1),
                                    split_mesh(work[Len(work)].mesh,
                                               ShatterDirection(work[Len(work)].mesh),
                                               VZero).halves,
                                    1, work[Len(work)]),
                         fragments, max_area)

EdgeDone == op = "edge_positions" /\ pc = "done"

EdgeMinX == MinX(mesh_in.pos, mesh_in.half_extents)
EdgeMaxX == MaxX(mesh_in.pos, mesh_in.half_extents)
EdgeMinY == MinY(mesh_in.pos, mesh_in.half_extents)
EdgeMaxY == MaxY(mesh_in.pos, mesh_in.half_extents)

\* the position against an edge at `bound` of an extent from `min` to `max`
\* along the axis that points out of the play area through that edge
Against(position, min, max, bound) ==
    /\ position = "Outside" <=> RLt(bound, min)
    /\ position = "Intersecting" <=> RLe(min, bound) /\ RLt(bound, max)
    /\ position = "Inside" <=> RLe(max, bound)

\* the entity is smaller than the play area, along both axes
SmallerThanPlayArea ==
    /\ RLt(mesh_in.half_extents[1], mesh_in.bounds[1])
    /\ RLt(mesh_in.half_extents[2], mesh_in.bounds[2])

AllInside(positions) ==
    /\ positions.top = "Inside" /\ positions.bottom = "Inside"
    /\ positions.left = "Inside" /\ positions.right = "Inside"

\* top and right are `position`, bottom and left are Inside
TopRight(positions, position) ==
    /\ positions.top = position /\ positions.right = position
    /\ positions.bottom = "Inside" /\ positions.left = "Inside"

\* C24: edge_positions classifies the entity against each edge from its extent
\* along the axis: Outside when min > bound, Intersecting when
\* min <= bound < max, Inside when max <= bound, with the axis reversed for
\* bottom and left.  So an entity whose extent stays within the bounds is
\* Inside on all four edges; one smaller than the play area and centred on the
\* top right corner is Intersecting on top and right and Inside on bottom and
\* left; one wholly beyond that corner is Outside on top and right and Inside on
\* bottom and left; and one smaller than the play area is never Outside or
\* Intersecting on two opposite edges.
C24_EdgePositions ==
    EdgeDone =>
        /\ Against(result[1].top, EdgeMinY, EdgeMaxY, mesh_in.bounds[2])
        /\ Against(result[1].bottom, RNeg(EdgeMaxY), RNeg(EdgeMinY), mesh_in.bounds[2])
        /\ Against(result[1].left, RNeg(EdgeMaxX), RNeg(EdgeMinX), mesh_in.bounds[1])
        /\ Against(result[1].right, EdgeMinX, EdgeMaxX, mesh_in.bounds[1])
        /\ (/\ RLe(RNeg(mesh_in.bounds[1]), EdgeMinX) /\ RLe(EdgeMaxX, mesh_in.bounds[1])
            /\ RLe(RNeg(mesh_in.bounds[2]), EdgeMinY) /\ RLe(EdgeMaxY, mesh_in.bounds[2]))
              => AllInside(result[1])
        /\ (mesh_in.pos = mesh_in.bounds /\ SmallerThanPlayArea)
              => TopRight(result[1], "Intersecting")
        /\ (RLt(mesh_in.bounds[1], EdgeMinX) /\ RLt(mesh_in.bounds[2], EdgeMinY))
              => TopRight(result[1], "Outside")
        /\ SmallerThanPlayArea
              => /\ result[1].top = "Inside" \/ result[1].bottom = "Inside"
                 /\ result[1].left = "Inside" \/ result[1].right = "Inside"

\* an entity smaller than the play area, centred on the top right corner, has
\* been classified
C24_OnTheCorner ==
    /\ EdgeDone /\ SmallerThanPlayArea
    /\ mesh_in.pos = mesh_in.bounds
    /\ result[1].top = "Intersecting" /\ result[1].left = "Inside"

\* trim_mesh has chosen its candidates and has not cut yet
TrimStarted == op = "trim" /\ pc = "trim" /\ splits = 0

NotAtOrigin(vertex) == vertex # VZero

\* the vertices of a mesh other than (0, 0), in the order of the mesh
NonOriginVertices(mesh) == SelectSeq(mesh.vertices, NotAtOrigin)

OnAxis(vertex) == vertex[1] = RZero \/ vertex[2] = RZero

\* C25 (as claimed; the code does otherwise): the candidates of trim_mesh are
\* chosen among all vertices of the input mesh other than (0, 0), those on the
\* x axis or the y axis included: with at most 5 such vertices, all of them are
\* candidates.
C25_NonOriginEligible ==
    TrimStarted => candidates \in ChooseMultiple(NonOriginVertices(mesh_in))

\* trim_mesh has chosen its candidates from a mesh with a vertex on an axis and
\* off the origin, and that vertex is not among them although fewer than 5
\* were chosen
C25_AxisVertexPassedOver ==
    /\ TrimStarted
    /\ Len(candidates) < TRIM_CANDIDATES
    /\ \E k \in 1..Len(mesh_in.vertices) :
          /\ OnAxis(mesh_in.vertices[k]) /\ NotAtOrigin(mesh_in.vertices[k])
          /\ \A j \in 1..Len(candidates) : candidates[j] # mesh_in.vertices[k]

\* a mesh has a vertex at the place `vertex` of trim_mesh's input, given the
\* offset of the mesh from the input
HasVertex(mesh, mesh_offset, vertex) ==
    \E k \in 1..Len(mesh.vertices) : VAdd(mesh.vertices[k], mesh_offset) = vertex

\* an iteration of trim_mesh's for loop that goes on to the next one
TrimIteration == pc = "trim" /\ candidates # <<>> /\ pc' = "trim"

\* the iteration pushed a shard, and it holds the vertex
ShardHolds(vertex) ==
    /\ Len(shards') = Len(shards) + 1
    /\ HasVertex(shards'[Len(shards')].mesh, shards'[Len(shards')].offset, vertex)

\* C26 (as claimed; the code does otherwise): in every iteration of trim_mesh
\* the side of the cut that holds the candidate vertex is pushed to the shards
\* and the other side becomes the main mesh: when the main mesh holds the
\* candidate before the cut, the next main mesh does not hold it and the shard
\* pushed does.
C26_CandidateSideIsShard ==
    [][(TrimIteration /\ HasVertex(main_mesh, offset, Head(candidates)))
        => (/\ ~HasVertex(main_mesh', offset', Head(candidates))
            /\ ShardHolds(Head(candidates)))]_vars

\* trim_mesh has cut for a candidate that is nearer to the origin than the
\* radius: no shard was pushed and the main mesh still holds the candidate
C26_CandidateKept ==
    /\ op = "trim" /\ mesh_in = NearVertexTriangle
    /\ splits = 1 /\ pc = "trim"
    /\ shards = <<>>
    /\ HasVertex(main_mesh, offset, V(1, 1))

\* twice the signed area of the triangle a, b, c
Orient(a, b, c) == CrossZ(<<a, b, c>>, <<0, 1, 2>>)

\* p is a point of the triangle a, b, c, its edges included
InTriangle(p, a, b, c) ==
    \/ /\ RLe(RZero, Orient(a, b, p)) /\ RLe(RZero, Orient(b, c, p))
       /\ RLe(RZero, Orient(c, a, p))
    \/ /\ RLe(Orient(a, b, p), RZero) /\ RLe(Orient(b, c, p), RZero)
       /\ RLe(Orient(c, a, p), RZero)

\* p is a point of one of the triangles of the mesh
InMesh(p, mesh) ==
    \E t \in 1..(Len(mesh.indices) \div 3) :
        InTriangle(p, mesh.vertices[mesh.indices[3 * t - 2] + 1],
                   mesh.vertices[mesh.indices[3 * t - 1] + 1],
                   mesh.vertices[mesh.indices[3 * t] + 1])

\* every vertex of the piece, moved by the offset of the piece, is a point of
\* the input mesh
InInputFrame(piece) ==
    \A k \in 1..Len(piece.mesh.vertices) :
        InMesh(VAdd(piece.mesh.vertices[k], piece.offset), mesh_in)

\* the pieces held by shatter_mesh (work list and result) or by trim_mesh (main
\* mesh and shards)
Pieces ==
    {queue[k] : k \in 1..Len(queue)} \cup {result[k] : k \in 1..Len(result)}
        \cup {shards[k] : k \in 1..Len(shards)}
        \cup (IF op = "trim" /\ pc # "call"
              THEN {[mesh |-> main_mesh, offset |-> offset]} ELSE {})

\* the items the iteration of shatter_mesh has pushed: the work list after it,
\* from the place of the popped item on
Pushed == SubSeq(queue', Len(queue), Len(queue'))

\* the halves split_mesh has returned, side A first, those absent left out
PresentHalves(r) == SelectSeq(r.halves, LAMBDA half : half.some)

\* C27: offsets compose additively.  In shatter_mesh the input starts with offset
\* zero, an item emitted keeps its offset, and each half pushed has the offset
\* of the popped item plus the offset split_mesh returned for it; in trim_mesh
\* the main offset grows by the offset of side A, and a shard pushed has the
\* main offset before the cut plus the offset of side B.  So every vertex of
\* every piece, moved by the offset of the piece, is a point of the input mesh.
C27_OffsetsCompose ==
    /\ [](op \in {"shatter", "trim"} =>
            /\ \A piece \in Pieces : InInputFrame(piece)
            /\ \A k \in 1..Len(result) :
                  result[k].depth = 0 => result[k].offset = VZero)
    /\ [][/\ (pc = "loop" /\ queue # <<>> /\ splits' = splits + 1 /\ pc' = "loop") =>
              /\ Len(Pushed) = Len(PresentHalves(ret'))
              /\ \A k \in 1..Len(Pushed) :
                    Pushed[k].offset =
                        VAdd(queue[Len(queue)].offset, PresentHalves(ret')[k].offset)
          /\ (pc = "loop" /\ queue # <<>> /\ splits' = splits) =>
              result'[Len(result')].offset = queue[Len(queue)].offset
          /\ TrimIteration =>
              /\ offset' = VAdd(offset, ret'.halves[1].offset)
              /\ ret'.halves[2].some =>
                    shards'[Len(shards')].offset = VAdd(offset, ret'.halves[2].offset)]_vars

\* shatter_mesh has returned a fragment two or more splits down whose offset is
\* not zero and is neither of the offsets the latest call of split_mesh returned
C27_OffsetsAddUp ==
    /\ op = "shatter" /\ pc = "done"
    /\ \E k \in 1..Len(result) :
          /\ result[k].depth >= 2
          /\ result[k].offset # VZero
          /\ \A side \in 1..2 : result[k].offset # ret.halves[side].offset

\* C28 (as claimed; the code does otherwise): trim_mesh never aborts on a valid
\* input mesh: every call of split_mesh in its for loop returns a present side
\* A, the unreachable!() arm is never taken, and the main mesh it returns is
\* valid.
C28_TrimNeverAborts ==
    op = "trim" =>
        /\ pc # "panicked"
        /\ Called => ret.halves[1].some
        /\ pc = "done" => valid_mesh(main_mesh)

\* trim_mesh has taken the unreachable!() arm on a valid input mesh of positive
\* area: the first call of split_mesh returned no side A
C28_Unreachable ==
    /\ op = "trim" /\ pc = "panicked" /\ splits = 1
    /\ valid_mesh(mesh_in) /\ RLt(RZero, calculate_mesh_area(mesh_in))
    /\ ~ret.panicked /\ ~ret.halves[1].some /\ ret.halves[2].some

\* the items shatter_mesh holds: its work list and its result
ShatterItems ==
    {queue[k] : k \in 1..Len(queue)} \cup {result[k] : k \in 1..Len(result)}

\* the greatest number of split_mesh calls of one shatter_mesh call, and of the
\* fragments it returns: a binary tree of SHATTER_MAX_RECURSION_DEPTH + 1 levels
\* of splits
MaxShatterSplits == 2 ^ (SHATTER_MAX_RECURSION_DEPTH + 1) - 1
MaxShatterFragments == 2 ^ (SHATTER_MAX_RECURSION_DEPTH + 1)

\* C29: in shatter_mesh only items of depth 0..3 are split and no item is deeper
\* than 4, so split_mesh is called at most 15 times and at most 16 fragments
\* are returned; a mesh whose area is at most max_shard_area is returned as the
\* single fragment, as it was passed and with offset zero, without a call of
\* split_mesh.
C29_ShatterFanOut ==
    op = "shatter" =>
        /\ \A item \in ShatterItems : item.depth \in 0..(SHATTER_MAX_RECURSION_DEPTH + 1)
        /\ Called => call.depth \in 0..SHATTER_MAX_RECURSION_DEPTH
        /\ splits <= MaxShatterSplits
        /\ Len(queue) + Len(result) <= MaxShatterFragments
        /\ (pc = "done" /\ RLe(calculate_mesh_area(mesh_in), max_shard_area)) =>
              /\ result = <<Item(mesh_in, VZero, 0)>>
              /\ splits = 0

\* shatter_mesh has returned after 15 calls of split_mesh, with 16 fragments
C29_FullTree ==
    /\ op = "shatter" /\ pc = "done"
    /\ splits = MaxShatterSplits
    /\ Len(result) = MaxShatterFragments

\* C30 (as claimed; the code does otherwise): a split inside shatter_mesh never
\* returns None for both sides: every
\* iteration of the while loop emits the popped item or pushes at least one
\* half, so the number of emitted fragments plus pending items never drops, and
\* the result is not empty when shatter_mesh returns.
C30_ShatterLosesNothing ==
    /\ [](op = "shatter" =>
            /\ pc # "panicked"
            /\ Called => (ret.halves[1].some \/ ret.halves[2].some)
            /\ pc = "done" => result # <<>>)
    /\ [][op = "shatter" =>
            Len(queue') + Len(result') >= Len(queue) + Len(result)]_vars

\* shatter_mesh has returned nothing: its one call of split_mesh, on a valid
\* input mesh of positive area, returned None for both sides
C30_NothingReturned ==
    /\ op = "shatter" /\ pc = "done"
    /\ valid_mesh(mesh_in) /\ RLt(RZero, calculate_mesh_area(mesh_in))
    /\ splits = 1
    /\ ~ret.halves[1].some /\ ~ret.halves[2].some
    /\ result = <<>>

=============================================================================
